---- MODULE Spec2Model ----
(***************************************************************************)
(* Task lifecycle of the Deep Research backend.                            *)
(*                                                                         *)
(*   app/backend/database.py  ResearchRepository (the Task Store)          *)
(*   app/backend/main.py      start_research, get_research_status,         *)
(*                            run_research (the Task Orchestrator)         *)
(*   src/request_logger.py    the api_requests logger (the Audit Log)      *)
(*   app/frontend/app.py      the polling client                           *)
(*                                                                         *)
(* The store is a database shared by every reader, so each commit of       *)
(* run_research is one step: a reader may see the row between two commits  *)
(* of the same execution unit.                                             *)
(*                                                                         *)
(* Environment: every step of the try block of run_research may raise      *)
(* (store write, engine call, use of the engine's return value, production *)
(* of the log summary); the log summary may raise in the handler as well.  *)
(* The handler's own store write, SessionLocal() and db.close() are taken  *)
(* to succeed.                                                             *)
(***************************************************************************)
EXTENDS Integers, Sequences, FiniteSets, TLC

\* ---------------------------------------------------------------- bounds
MaxTasks == 2
\* The clock of the listing specification stops here.
MaxTime == 1
\* The page sizes a reader asks for are 1..MaxLimit, or none.
MaxLimit == 2
\* The log file holds at most MaxLog records.
MaxLog == 2

\* ---------------------------------------------------------------- values
Ids == 1..MaxTasks
\* ResearchRequest bodies a client may post (query, research_type).
Requests ==
    { [query |-> "q1", research_type |-> "supervisor"],
      [query |-> "q2", research_type |-> "researcher"] }
Statuses == {"pending", "running", "completed", "failed"}
Terminal == {"completed", "failed"}

\* Optional[T]: None is the empty sequence, a present value x is <<x>>.
None == <<>>
Some(x) == <<x>>

\* dict.get(key, default)
Get(d, key, default) == IF key \in DOMAIN d THEN d[key] ELSE default

\* ------------------------------------------------------ strings (Python)
Min(a, b) == IF a < b THEN a ELSE b

\* s.find(sub, start): the least index (from 0) at or after start where sub
\* begins, or -1.
Find(s, sub, start) ==
    LET hits == { i \in start..(Len(s) - Len(sub)) : SubSeq(s, i + 1, i + Len(sub)) = sub }
    IN  IF hits = {} THEN -1 ELSE CHOOSE i \in hits : \A j \in hits : i <= j

\* sub in s
Contains(s, sub) == Find(s, sub, 0) # -1

\* s[start:end] for 0 <= start < end, and s[:n].
Slice(s, start, end) == SubSeq(s, start + 1, Min(end, Len(s)))
Prefix(s, n) == SubSeq(s, 1, Min(n, Len(s)))

LowerCase == "abcdefghijklmnopqrstuvwxyz"
UpperCase == "ABCDEFGHIJKLMNOPQRSTUVWXYZ"

\* str.upper() and str.lower(), character by character.
RECURSIVE upper(_)
upper(s) ==
    IF s = "" THEN ""
    ELSE IF Len(s) = 1
    THEN LET i == Find(LowerCase, s, 0)
         IN  IF i = -1 THEN s ELSE SubSeq(UpperCase, i + 1, i + 1)
    ELSE upper(SubSeq(s, 1, Len(s) \div 2)) \o upper(SubSeq(s, Len(s) \div 2 + 1, Len(s)))

RECURSIVE lower(_)
lower(s) ==
    IF s = "" THEN ""
    ELSE IF Len(s) = 1
    THEN LET i == Find(UpperCase, s, 0)
         IN  IF i = -1 THEN s ELSE SubSeq(LowerCase, i + 1, i + 1)
    ELSE lower(SubSeq(s, 1, Len(s) \div 2)) \o lower(SubSeq(s, Len(s) \div 2 + 1, Len(s)))

\* int(s) of a decimal numeral with an optional sign: Some(value), or None
\* for the ValueError.
Digits == "0123456789"
RECURSIVE Numeral(_, _)
Numeral(s, acc) ==
    IF s = "" THEN Some(acc)
    ELSE LET d == Find(Digits, SubSeq(s, 1, 1), 0)
         IN  IF d = -1 THEN None ELSE Numeral(SubSeq(s, 2, Len(s)), 10 * acc + d)

int(s) ==
    IF s = "" \/ s = "-" THEN None
    ELSE IF SubSeq(s, 1, 1) = "-"
         THEN LET v == Numeral(SubSeq(s, 2, Len(s)), 0)
              IN  IF v = None THEN None ELSE Some(0 - v[1])
         ELSE Numeral(s, 0)

\* f.readlines(): the text cut after every newline.
RECURSIVE readlines(_)
readlines(text) ==
    IF text = "" THEN <<>>
    ELSE LET i == Find(text, "\n", 0)
         IN  IF i = -1 THEN <<text>>
             ELSE <<SubSeq(text, 1, i + 1)>> \o readlines(SubSeq(text, i + 2, Len(text)))

\* ------------------------------------------------- the research engine
\* What supervisor_agent.ainvoke / researcher_agent.ainvoke may hand back: a
\* mapping (each of the three fields it is read for is absent or present), or
\* a value that is no mapping.  A dict is a function from its keys.
EmptyDict == [k \in {} |-> ""]

EngineDicts ==
    { EmptyDict,
      [draft_report |-> "", compressed_research |-> "findings", raw_notes |-> <<"note">>],
      [draft_report |-> "draft", compressed_research |-> "findings", raw_notes |-> <<>>] }

\* Every mapping over the three fields: each absent, empty or filled.
Field(key, values) == {EmptyDict} \cup { key :> v : v \in values }
AllEngineDicts ==
    { d1 @@ d2 @@ d3 : d1 \in Field("draft_report", {"", "draft"}),
                       d2 \in Field("compressed_research", {"", "findings"}),
                       d3 \in Field("raw_notes", {<<>>, <<"note">>}) }
AllEngineReturns ==
    { [mapping |-> TRUE, value |-> d] : d \in AllEngineDicts }
      \cup { [mapping |-> FALSE, value |-> EmptyDict] }

EngineReturns ==
    { [mapping |-> TRUE, value |-> d] : d \in EngineDicts }
      \cup { [mapping |-> FALSE, value |-> EmptyDict] }

\* str(e) of what the engine may raise.
EngineErrors == {"engine error"}
\* str(e) of the other failures of the try block.
StoreError == "store error"
SummaryError == "log unreadable"
AttributeError == "object has no attribute 'get'"

\* ----------------------------------------------------------------- state
VARIABLES
    store,      \* research_tasks: research_id -> row (database.py:34-47)
    pc,         \* position of each execution unit in run_research
    engine_result, \* run_research's local `result`, while the unit holds one
    raised,     \* the exception execute_research() raised in each unit, if any
    escaped,    \* ids whose run_research let an exception out
    response,   \* the ResearchResponse start_research returned for each id
    calls,      \* per id, the committed update_result / update_error calls
    apiLog,     \* logs/api_requests.log, one record per line
    appLog,     \* ERROR lines run_research gave to logging.getLogger(__name__)
    client,     \* the frontend session: its polling loop and last answer
    process,    \* the backend process: "up" or "down" (crashed, not restarted)
    now,        \* the clock datetime.utcnow() reads
    last,       \* the last direct call of the repository and what it gave back
    pager,      \* a reader walking GET /research page by page
    log_exists, \* whether logs/api_requests.log is there
    audit,      \* the last call of a writer or reader of the log, and its outcome
    session,    \* a get_session_summary call on its way
    units,      \* per id, the number of run_research units handed to BackgroundTasks
    txn,        \* database sessions of callers that mutate one row side by side
    polling     \* a polling loop of the frontend, with its clock

vars == <<store, pc, engine_result, raised, escaped, response, calls, apiLog, appLog, client,
          process, now, last, pager, log_exists, audit, session, units, txn, polling>>

\* What the lifecycle leaves alone.
others == <<now, last, pager, log_exists, audit, session, units, txn, polling>>

\* No call of the log's writers and readers yet; no get_session_summary
\* under way.
NoAudit == [op |-> "none", outcome |-> "", returned |-> TRUE, threshold |-> 0,
            signal |-> FALSE, printed |-> <<>>, breakdown |-> <<>>]
NoSession == [at |-> "idle", from |-> 0, counts |-> <<>>, breakdown |-> <<>>,
              result |-> <<>>]

\* No caller with an open database session; no polling loop started.
NoTxn == [A |-> [at |-> "idle", op |-> "", loaded |-> <<>>, dirty |-> <<>>],
          B |-> [at |-> "idle", op |-> "", loaded |-> <<>>, dirty |-> <<>>],
          research_id |-> 0, before |-> <<>>]
NoPolling == [at |-> "idle", research_id |-> 0, elapsed |-> 0, read_at |-> 0,
              research_data |-> <<>>, shown |-> FALSE]

\* No repository call yet; no page read yet.
NoCall == [op |-> "none", research_id |-> 0, query |-> "", research_type |-> "",
           status |-> "", raised |-> "", task |-> None, deleted |-> FALSE]
NoPager == [limit |-> 0, offset |-> 0, status |-> None, seen |-> <<>>, done |-> FALSE]

\* ------------------------------------------------------------ Task Store
\* A row of research_tasks; created_at and updated_at default to
\* datetime.utcnow at the insert.
ResearchTask(research_id, query, research_type, status) ==
    [research_id |-> research_id, query |-> query, research_type |-> research_type,
     status |-> status, result |-> None, error |-> None,
     created_at |-> now, updated_at |-> now]

\* datetime.utcnow(), as the repository reads it.
utcnow == now

\* create with the status argument ignored.
create_running(db, research_id, query, research_type, status) ==
    db @@ (research_id :> ResearchTask(research_id, query, research_type, "running"))

\* create with query and research_type in each other's place.
create_swapped(db, research_id, query, research_type, status) ==
    db @@ (research_id :> ResearchTask(research_id, research_type, query, status))

\* create on a table without the unique index: the new row takes the place
\* of the one that had the research_id.
create_replace(db, research_id, query, research_type, status) ==
    (research_id :> ResearchTask(research_id, query, research_type, status)) @@ db

\* ResearchRepository.create: add, commit, refresh.  The unique index on
\* research_id rejects the insert of a second row with the same research_id:
\* the commit raises and the table is as it was.
create(db, research_id, query, research_type, status) ==
    db @@ (research_id :> ResearchTask(research_id, query, research_type, status))

\* ResearchRepository.get_by_id: the row, or None.
get_by_id(db, research_id) ==
    IF research_id \in DOMAIN db THEN Some(db[research_id]) ELSE None

\* update_status inserting the row it does not find.
update_status_upsert(db, research_id, status) ==
    IF research_id \in DOMAIN db
    THEN [db EXCEPT ![research_id].status = status, ![research_id].updated_at = utcnow]
    ELSE db @@ (research_id :> ResearchTask(research_id, "", "", status))

\* update_status leaving updated_at to the column's onupdate, on a table
\* whose column has none.
update_status_unstamped(db, research_id, status) ==
    IF research_id \in DOMAIN db
    THEN [db EXCEPT ![research_id].status = status]
    ELSE db

\* ResearchRepository.update_status: writes whatever status it is given, on
\* any row it finds, and stamps updated_at.
update_status(db, research_id, status) ==
    IF research_id \in DOMAIN db
    THEN [db EXCEPT ![research_id].status = status, ![research_id].updated_at = utcnow]
    ELSE db

\* update_result writing the status into the research_type column.
update_result_wrong_column(db, research_id, result) ==
    IF research_id \in DOMAIN db
    THEN [db EXCEPT ![research_id].result = Some(result),
                    ![research_id].research_type = "completed",
                    ![research_id].updated_at = utcnow]
    ELSE db

\* ResearchRepository.update_result: result and status, on any row it finds.
update_result(db, research_id, result) ==
    IF research_id \in DOMAIN db
    THEN [db EXCEPT ![research_id].result = Some(result),
                    ![research_id].status = "completed",
                    ![research_id].updated_at = utcnow]
    ELSE db

\* update_error removing the row it was to mark.
update_error_removes(db, research_id, error) ==
    [id \in DOMAIN db \ {research_id} |-> db[id]]

\* update_error without the status write.
update_error_keeps_status(db, research_id, error) ==
    IF research_id \in DOMAIN db
    THEN [db EXCEPT ![research_id].error = Some(error)]
    ELSE db

\* ResearchRepository.update_error: error and status, on any row it finds.
update_error(db, research_id, error) ==
    IF research_id \in DOMAIN db
    THEN [db EXCEPT ![research_id].error = Some(error),
                    ![research_id].status = "failed",
                    ![research_id].updated_at = utcnow]
    ELSE db

\* delete filtering on the query of the row instead of its research_id.
delete_same_query(db, research_id) ==
    IF research_id \in DOMAIN db
    THEN [id \in { i \in DOMAIN db : db[i].query # db[research_id].query } |-> db[id]]
    ELSE db

\* ResearchRepository.delete: the row with this research_id, if there is one.
delete(db, research_id) ==
    [id \in DOMAIN db \ {research_id} |-> db[id]]

\* limit: int = 100 of get_all, get_all_by_status and list_research.
DefaultLimit == 100
Limits == (1..MaxLimit) \cup {DefaultLimit}

\* ORDER BY created_at DESC: every order of the rows in which created_at
\* does not increase.  Rows with equal created_at come in an order the
\* database chooses, query by query.
Orders(db) ==
    { o \in [1..Cardinality(DOMAIN db) -> DOMAIN db] :
        /\ \A i, j \in DOMAIN o : i # j => o[i] # o[j]
        /\ \A i, j \in DOMAIN o : i < j => db[o[i]].created_at >= db[o[j]].created_at }

\* .limit(limit).offset(offset).all() of one order.
Page(db, o, limit, offset) ==
    LET ids == SubSeq(o, offset + 1, Min(Len(o), offset + limit))
    IN  [i \in DOMAIN ids |-> db[ids[i]]]

\* ResearchRepository.get_all: the pages the query may return.
get_all(db, limit, offset) ==
    { Page(db, o, limit, offset) : o \in Orders(db) }

\* ResearchRepository.get_all_by_status: the same, of the rows whose status
\* is the one asked for.
get_all_by_status(db, status, limit, offset) ==
    get_all([id \in { i \in DOMAIN db : db[i].status = status } |-> db[id]], limit, offset)

\* sqlalchemy.exc.IntegrityError, raised by the commit of create.
IntegrityError == "IntegrityError"

\* init_db with a reconciliation sweep: every row found running is failed.
init_db_sweep(db) ==
    [id \in DOMAIN db |->
        IF db[id].status = "running"
        THEN [db[id] EXCEPT !.status = "failed", !.error = Some("interrupted")]
        ELSE db[id]]

\* database.init_db: Base.metadata.create_all creates the tables that are
\* missing and leaves the rows of an existing table as they are.
init_db(db) == db

\* ------------------------------------------------------------- Audit Log
\* request_logger.log_tavily_error: one line, given to the api_requests
\* logger (file handler on logs/api_requests.log).
log_tavily_error(query, error) ==
    [category |-> "TAVILY", direction |-> "ERROR", query |-> query, error |-> error]

\* request_logger.log_tavily_request
log_tavily_request(query, max_results, topic) ==
    [category |-> "TAVILY", direction |-> "REQUEST", query |-> query,
     max_results |-> max_results, topic |-> topic]

\* request_logger.log_tavily_response; first_result is None or Some(dict).
log_tavily_response(query, num_results, first_result) ==
    [category |-> "TAVILY", direction |-> "RESPONSE", query |-> query,
     num_results |-> num_results,
     snippet |-> IF first_result # None /\ first_result[1] # EmptyDict
                    /\ "title" \in DOMAIN first_result[1]
                 THEN " | first_result='" \o Prefix(first_result[1]["title"], 80) \o "...'"
                 ELSE ""]

\* request_logger.log_openrouter_request; messages is a list of dicts,
\* max_tokens is None or Some(n).
log_openrouter_request(model, messages, max_tokens, request_type) ==
    LET users == { i \in DOMAIN messages : Get(messages[i], "role", "") = "user" }
        first == CHOOSE i \in users : \A j \in users : i <= j
    IN  [category |-> "OPENROUTER", direction |-> "REQUEST", request_type |-> request_type,
         model |-> model, num_messages |-> Len(messages), max_tokens |-> max_tokens,
         user_message |-> IF users = {} THEN ""
                          ELSE Prefix(Get(messages[first], "content", ""), 120)]

\* request_logger.log_openrouter_response; usage is None or Some(dict).
log_openrouter_response(model, response_content, request_type, usage) ==
    [category |-> "OPENROUTER", direction |-> "RESPONSE", request_type |-> request_type,
     model |-> model, response_snippet |-> Prefix(response_content, 100),
     tokens_info |-> IF usage # None /\ usage[1] # EmptyDict
                     THEN " | tokens=(prompt=" \o ToString(Get(usage[1], "prompt_tokens", 0))
                              \o ", completion="
                              \o ToString(Get(usage[1], "completion_tokens", 0)) \o ")"
                     ELSE ""]

\* request_logger.log_openrouter_error
log_openrouter_error(model, request_type, error) ==
    [category |-> "OPENROUTER", direction |-> "ERROR", request_type |-> request_type,
     model |-> model, error |-> error]

\* request_logger.log_agent_iteration
log_agent_iteration(agent_type, iteration, action) ==
    [category |-> "AGENT", direction |-> "ITERATION", agent_type |-> agent_type,
     iteration |-> iteration, action |-> action]

\* str(max_tokens)
OptionalInt(n) == IF n = None THEN "None" ELSE ToString(n[1])

\* The f-string each of the seven functions hands to the logger.
message(rec) ==
    CASE rec.category = "TAVILY" /\ rec.direction = "REQUEST" ->
            "[TAVILY] REQUEST | query='" \o rec.query \o "' | max_results="
                \o ToString(rec.max_results) \o " | topic=" \o rec.topic
      [] rec.category = "TAVILY" /\ rec.direction = "RESPONSE" ->
            "[TAVILY] RESPONSE | query='" \o rec.query \o "' | results_count="
                \o ToString(rec.num_results) \o rec.snippet
      [] rec.category = "TAVILY" /\ rec.direction = "ERROR" ->
            "[TAVILY] ERROR | query='" \o rec.query \o "' | error=" \o rec.error
      [] rec.category = "OPENROUTER" /\ rec.direction = "REQUEST" ->
            "[OPENROUTER] REQUEST | type=" \o rec.request_type \o " | model=" \o rec.model
                \o " | num_messages=" \o ToString(rec.num_messages)
                \o " | max_tokens=" \o OptionalInt(rec.max_tokens)
                \o " | first_msg='" \o rec.user_message \o "...'"
      [] rec.category = "OPENROUTER" /\ rec.direction = "RESPONSE" ->
            "[OPENROUTER] RESPONSE | type=" \o rec.request_type \o " | model=" \o rec.model
                \o " | response='" \o rec.response_snippet \o "...'" \o rec.tokens_info
      [] rec.category = "OPENROUTER" /\ rec.direction = "ERROR" ->
            "[OPENROUTER] ERROR | type=" \o rec.request_type \o " | model=" \o rec.model
                \o " | error=" \o rec.error
      [] rec.category = "AGENT" ->
            "[AGENT] " \o upper(rec.agent_type) \o " | iteration=" \o ToString(rec.iteration)
                \o " | action=" \o rec.action

\* logger.error for the error records, logger.info for the others.
levelname(rec) == IF rec.direction = "ERROR" THEN "ERROR" ELSE "INFO"

\* %(asctime)s with datefmt '%Y-%m-%d %H:%M:%S'
asctime == "2026-01-01 00:00:00"

\* logging.Formatter('%(asctime)s - %(name)s - %(levelname)s - %(message)s')
\* and the terminator the handler writes after it.
format(rec) ==
    asctime \o " - api_requests - " \o levelname(rec) \o " - " \o message(rec) \o "\n"

\* The text of logs/api_requests.log holding these records.
RECURSIVE file_text(_)
file_text(records) ==
    IF records = <<>> THEN "" ELSE format(Head(records)) \o file_text(Tail(records))

\* emit of a handler that opened the file with mode 'w' for the record.
emit_rewrite(records, rec, outcome) ==
    [records |-> IF outcome = "written" THEN <<rec>> ELSE records,
     returned |-> TRUE]

\* StreamHandler.emit with the write raising: the exception goes out of the
\* handler.
emit_raising(records, rec, outcome) ==
    [records |-> IF outcome = "written" THEN Append(records, rec) ELSE records,
     returned |-> outcome = "written"]

\* StreamHandler.emit of the FileHandler (mode 'a'): the formatted record is
\* written after what the file holds and flushed; an exception of the write
\* is given to handleError and the call returns.
emit(records, rec, outcome) ==
    [records |-> IF outcome = "written" THEN Append(records, rec) ELSE records,
     returned |-> TRUE]

\* open(path, 'w'): the file is cut to nothing.
open_w(records) == <<>>

\* open(path, 'r') ... f.readlines(): the file is as it was.
open_r(records) == records

\* logging_utils.read_logs: [] when the file is missing, else its lines,
\* the last limit of them when limit is not None and not 0.
read_logs(exists, records, limit) ==
    IF ~exists THEN <<>>
    ELSE LET lines == readlines(file_text(records))
         IN  IF limit # None /\ limit[1] # 0
             THEN SubSeq(lines, Len(lines) - Min(limit[1], Len(lines)) + 1, Len(lines))
             ELSE lines

\* sum(1 for line in lines if sub in line)
Count(lines, sub) == Cardinality({ i \in DOMAIN lines : Contains(lines[i], sub) })

\* [line for line in lines if sub in line]
Matching(lines, sub) == SelectSeq(lines, LAMBDA line : Contains(line, sub))

\* ------------------------------------------------------ Anomaly Detector
\* threshold: int = 5 of detect_loop.
DefaultThreshold == 5

\* logging_utils.detect_loop 167-181: the iteration of the last line that
\* holds "[AGENT]", when it can be cut out and read, against the threshold.
iteration_check(lines, threshold) ==
    LET agent_logs == Matching(lines, "[AGENT]")
        last_agent_log == agent_logs[Len(agent_logs)]
        start == Find(last_agent_log, "iteration=", 0) + 10
        end == Find(last_agent_log, " |", start)
    IN  /\ agent_logs # <<>>
        /\ Contains(last_agent_log, "iteration=")
        /\ end > start
        /\ int(Slice(last_agent_log, start, end)) # None
        /\ int(Slice(last_agent_log, start, end))[1] >= threshold

\* logging_utils.detect_loop 183-190: what is cut out of the lines that hold
\* "[TAVILY] REQUEST" and "query=", between "query='" and the next quote.
RECURSIVE searches(_)
searches(lines) ==
    IF lines = <<>> THEN <<>>
    ELSE LET line == Head(lines)
             start == Find(line, "query='", 0) + 7
             end == Find(line, "'", start)
         IN  (IF /\ Contains(line, "[TAVILY] REQUEST")
                 /\ Contains(line, "query=")
                 /\ end > start
              THEN <<Slice(line, start, end)>> ELSE <<>>) \o searches(Tail(lines))

\* len(searches) != len(set(searches))
HasDuplicate(s) == Len(s) # Cardinality({ s[i] : i \in DOMAIN s })

\* logging_utils.detect_loop, on the lines its read_logs() returned.
detect_loop(lines, threshold) ==
    IF lines = <<>> THEN FALSE
    ELSE IF iteration_check(lines, threshold) THEN TRUE
    ELSE searches(lines) # <<>> /\ HasDuplicate(searches(lines))

\* logging_utils.get_request_type_breakdown 137-144: the request types cut
\* out of the lines that hold "[OPENROUTER] REQUEST" and "type=".
RECURSIVE request_types(_)
request_types(lines) ==
    IF lines = <<>> THEN <<>>
    ELSE LET line == Head(lines)
             start == Find(line, "type=", 0) + 5
             end == Find(line, " |", start)
         IN  (IF /\ Contains(line, "[OPENROUTER] REQUEST")
                 /\ Contains(line, "type=")
                 /\ end > start
              THEN <<Slice(line, start, end)>> ELSE <<>>) \o request_types(Tail(lines))

\* dict(Counter(s))
Counter(s) ==
    [v \in { s[i] : i \in DOMAIN s } |-> Cardinality({ i \in DOMAIN s : s[i] = v })]

\* logging_utils.get_request_type_breakdown, on the lines its read_logs()
\* returned.
get_request_type_breakdown(lines) == Counter(request_types(lines))

\* logging_utils.get_session_summary 209-213: the counts of its own lines.
session_counts(lines) ==
    [total_lines |-> Len(lines),
     tavily_requests |-> Count(lines, "[TAVILY] REQUEST"),
     tavily_responses |-> Count(lines, "[TAVILY] RESPONSE"),
     openrouter_requests |-> Count(lines, "[OPENROUTER] REQUEST"),
     openrouter_responses |-> Count(lines, "[OPENROUTER] RESPONSE"),
     errors |-> Count(lines, "ERROR")]

\* logging_utils.get_session_summary 217-227: the dict returned, from the
\* counts, the breakdown and the loop signal it collected.
session_summary(counts, breakdown, potential_loop) ==
    [total_lines |-> counts.total_lines,
     tavily_requests |-> counts.tavily_requests,
     tavily_responses |-> counts.tavily_responses,
     openrouter_requests |-> counts.openrouter_requests,
     openrouter_responses |-> counts.openrouter_responses,
     errors |-> counts.errors,
     request_type_breakdown |-> breakdown,
     potential_loop |-> potential_loop]

\* request_logger.get_api_log_summary: the text returned.
get_api_log_summary(exists, records) ==
    IF ~exists THEN "No API log file found yet"
    ELSE LET lines == readlines(file_text(records))
         IN  "\n=== API Request Summary ===\n"
             \o "Tavily Requests:      " \o ToString(Count(lines, "[TAVILY] REQUEST")) \o "\n"
             \o "Tavily Responses:     " \o ToString(Count(lines, "[TAVILY] RESPONSE")) \o "\n"
             \o "OpenRouter Requests:  " \o ToString(Count(lines, "[OPENROUTER] REQUEST")) \o "\n"
             \o "OpenRouter Responses: " \o ToString(Count(lines, "[OPENROUTER] RESPONSE")) \o "\n"
             \o "Errors:               " \o ToString(Count(lines, "ERROR")) \o "\n"

\* check_api_logs.show_summary: what it prints.
show_summary(exists, records) ==
    LET lines == readlines(file_text(records))
    IN  IF ~exists THEN <<"No API log file found yet">>
        ELSE IF lines = <<>> THEN <<"Log file is empty">>
        ELSE <<"Tavily Requests:      " \o ToString(Count(lines, "[TAVILY] REQUEST")),
               "Tavily Responses:     " \o ToString(Count(lines, "[TAVILY] RESPONSE")),
               "Tavily Errors:        " \o ToString(Count(lines, "[TAVILY] ERROR")),
               "OpenRouter Requests:  " \o ToString(Count(lines, "[OPENROUTER] REQUEST")),
               "OpenRouter Responses: " \o ToString(Count(lines, "[OPENROUTER] RESPONSE")),
               "OpenRouter Errors:    " \o ToString(Count(lines, "[OPENROUTER] ERROR")),
               "Agent Iterations:     " \o ToString(Count(lines, "[AGENT]")),
               "Total Lines: " \o ToString(Len(lines))>>

\* check_api_logs.show_tail: what it prints.
show_tail(exists, records, num_lines) ==
    LET lines == readlines(file_text(records))
    IN  IF ~exists THEN <<"No API log file found yet">>
        ELSE IF lines = <<>> THEN <<"Log file is empty">>
        ELSE <<"Last " \o ToString(Min(num_lines, Len(lines))) \o " API Log Entries">>
             \o SubSeq(lines, Len(lines) - Min(num_lines, Len(lines)) + 1, Len(lines))

\* grep_logs without the test for the file.
grep_logs_unchecked(exists, records, pattern) ==
    LET lines == readlines(file_text(records))
        matching == SelectSeq(lines, LAMBDA line : Contains(lower(line), lower(pattern)))
    IN  <<"Lines matching '" \o pattern \o "' (" \o ToString(Len(matching)) \o " found)">>
        \o matching

\* check_api_logs.grep_logs: what it prints.
grep_logs(exists, records, pattern) ==
    LET lines == readlines(file_text(records))
        matching == SelectSeq(lines, LAMBDA line : Contains(lower(line), lower(pattern)))
    IN  IF ~exists THEN <<"No API log file found yet">>
        ELSE <<"Lines matching '" \o pattern \o "' (" \o ToString(Len(matching)) \o " found)">>
             \o matching

RECURSIVE Distinct(_)
RECURSIVE SortedByCount(_, _)
\* The distinct elements of s, in the order of their first occurrence: the
\* key order of Counter(s).
Distinct(s) ==
    IF s = <<>> THEN <<>>
    ELSE LET d == Distinct(SubSeq(s, 1, Len(s) - 1))
         IN  IF \E i \in DOMAIN d : d[i] = s[Len(s)] THEN d ELSE Append(d, s[Len(s)])

\* sorted(items, key=count, reverse=True): the greatest count first, equal
\* counts in the order they had.
SortedByCount(keys, counts) ==
    IF keys = <<>> THEN <<>>
    ELSE LET best == CHOOSE i \in DOMAIN keys :
                        /\ \A j \in DOMAIN keys : counts[keys[j]] <= counts[keys[i]]
                        /\ \A j \in 1..(i - 1) : counts[keys[j]] < counts[keys[i]]
         IN  <<keys[best]>>
                 \o SortedByCount(SubSeq(keys, 1, best - 1)
                                      \o SubSeq(keys, best + 1, Len(keys)), counts)

\* check_api_logs.show_detailed_summary: what it prints, without the rules
\* and the title.
show_detailed_summary(exists, records) ==
    LET lines == readlines(file_text(records))
        types == request_types(Matching(lines, "[OPENROUTER] REQUEST"))
        type_counter == Counter(types)
        by_count == SortedByCount(Distinct(types), type_counter)
        errors == Matching(lines, "ERROR")
    IN  IF ~exists THEN <<"No API log file found yet">>
        ELSE IF lines = <<>> THEN <<"Log file is empty">>
        ELSE <<"Total Tavily Search Requests: " \o ToString(Count(lines, "[TAVILY] REQUEST")),
               "Total OpenRouter LLM Requests: "
                   \o ToString(Count(lines, "[OPENROUTER] REQUEST"))>>
             \o (IF types # <<>>
                 THEN <<"OpenRouter Requests by Type:">>
                          \o [i \in DOMAIN by_count |->
                                "  - " \o by_count[i] \o ": "
                                    \o ToString(type_counter[by_count[i]])]
                 ELSE <<>>)
             \o <<IF errors # <<>> THEN "Errors Found: " \o ToString(Len(errors))
                  ELSE "No errors found">>

\* A line of the module logger of main.py (logging.getLogger(__name__)), which
\* has no handler on api_requests.log.  Only its ERROR lines are kept.
AppLine(level, research_id, text) ==
    [level |-> level, research_id |-> research_id, text |-> text]

\* ----------------------------------------------------------- Orchestrator
\* start_research answering only once the unit is over.
SubmitResponse_withheld(research_id, query) == None

\* The body start_research answers with (None: no answer yet).
SubmitResponse(research_id, query) ==
    Some(
    [research_id |-> research_id, status |-> "pending", query |-> query,
     result |-> None, error |-> None])

\* The body get_research_status answers with for a row.
ResearchResponse(task) ==
    [research_id |-> task.research_id, status |-> task.status, query |-> task.query,
     result |-> task.result, error |-> task.error]

\* result_data testing the presence of draft_report, not its truthiness.
result_data_key_test(r) ==
    [compressed_research |-> Get(r, "compressed_research", ""),
     raw_notes |-> Get(r, "raw_notes", <<>>),
     draft_report |-> IF "draft_report" \in DOMAIN r
                      THEN r["draft_report"]
                      ELSE "# Research Report\n\n" \o Get(r, "compressed_research", "")]

\* main.py 244-255: the result_data built from the engine's mapping.
result_data(r) ==
    LET draft_report == Get(r, "draft_report", "")
        compressed == Get(r, "compressed_research", "")
    IN  [compressed_research |-> Get(r, "compressed_research", ""),
         raw_notes |-> Get(r, "raw_notes", <<>>),
         draft_report |-> IF draft_report = ""
                          THEN "# Research Report\n\n" \o compressed
                          ELSE draft_report]

\* get_api_log_summary() opens and reads the log file: it returns its text or
\* raises (an OSError, a decoding error).
SummaryOutcomes == {"returned", "raised"}

\* main.py 264-271: the except block of run_research, entered with exception
\* e, then finally.  logger.error goes to the module logger; update_error
\* writes the row; a get_api_log_summary() that raises here leaves
\* run_research as an exception.  The unit ends and its locals with it.
Handler(research_id, e) ==
    /\ engine_result' = [engine_result EXCEPT ![research_id] = None]
    /\ store' = update_error(store, research_id, e)
    /\ calls' = [calls EXCEPT ![research_id] = Append(@, "update_error")]
    /\ appLog' = appLog \cup { AppLine("ERROR", research_id, e) }
    /\ \E summary \in SummaryOutcomes :
          escaped' = IF summary = "raised" THEN escaped \cup {research_id} ELSE escaped
    /\ pc' = [pc EXCEPT ![research_id] = "done"]

\* add_task handing the unit over twice.
add_task_twice(scheduled, research_id) ==
    [scheduled EXCEPT ![research_id] = @ + 2]

\* main.py 148-153, background_tasks.add_task(run_research, research_id=..):
\* one more unit for the id, run once after the response is sent.
add_task(scheduled, research_id) ==
    [scheduled EXCEPT ![research_id] = @ + 1]

\* main.py 110-155, POST /research: uuid4 gives an unused id; the row is
\* created pending, the unit is handed to BackgroundTasks, the response is
\* returned.  Posted by any API client, or by the frontend session (app.py
\* 212-236), which then starts its polling loop on the id.
start_research(research_id, request) ==
    /\ process = "up"
    /\ research_id \notin DOMAIN store
    /\ store' = create(store, research_id, request.query, request.research_type, "pending")
    /\ response' = [response EXCEPT ![research_id] =
                        SubmitResponse(research_id, request.query)]
    /\ pc' = [pc EXCEPT ![research_id] = "scheduled"]
    /\ appLog' = appLog
    /\ \/ UNCHANGED client
       \/ /\ client.phase # "polling"
          /\ client' = [phase |-> "polling", research_id |-> research_id, status |-> ""]
    /\ units' = add_task(units, research_id)
    /\ UNCHANGED <<engine_result, raised, escaped, calls, apiLog, process, now, last, pager,
                   log_exists, audit, session, txn, polling>>

\* main.py 222-241: the unit starts; update_status commits "running" and the
\* unit awaits the engine, or update_status raises and the handler runs.
run_research_start(research_id) ==
    /\ process = "up"
    /\ pc[research_id] = "scheduled"
    /\ \/ /\ store' = update_status(store, research_id, "running")
          /\ appLog' = appLog
          /\ pc' = [pc EXCEPT ![research_id] = "awaiting"]
          /\ UNCHANGED <<engine_result, escaped, calls>>
       \/ Handler(research_id, StoreError)
    /\ UNCHANGED <<raised, response, apiLog, client, process, others>>

\* main.py 241-259: execute_research() returns r; the result is normalised
\* and update_result commits it, or a step of that raises and the handler
\* runs.
run_research_returned(research_id, r) ==
    /\ process = "up"
    /\ pc[research_id] = "awaiting"
    /\ IF ~r.mapping
       THEN Handler(research_id, AttributeError)
       ELSE \/ /\ engine_result' = [engine_result EXCEPT ![research_id] = Some(r.value)]
               /\ store' = update_result(store, research_id, result_data(r.value))
               /\ calls' = [calls EXCEPT ![research_id] = Append(@, "update_result")]
               /\ appLog' = appLog
               /\ pc' = [pc EXCEPT ![research_id] = "summary"]
               /\ UNCHANGED escaped
            \/ Handler(research_id, StoreError)
    /\ UNCHANGED <<raised, response, apiLog, client, process, others>>

\* main.py 241, 264-271: execute_research() raises e; the handler runs.  The
\* engine is an external collaborator: before it raises it may have logged
\* the failing call through request_logger.log_tavily_error, or not.
run_research_raised(research_id, e) ==
    /\ process = "up"
    /\ pc[research_id] = "awaiting"
    /\ raised' = [raised EXCEPT ![research_id] = Some(e)]
    /\ \/ apiLog' = Append(apiLog, log_tavily_error(store[research_id].query, e))
       \/ apiLog' = apiLog
    /\ Handler(research_id, e)
    /\ UNCHANGED <<response, client, process, others>>

\* main.py 261-262, still inside the try: the log summary is produced and
\* logged, or producing it raises and the handler runs.
run_research_summary(research_id) ==
    /\ process = "up"
    /\ pc[research_id] = "summary"
    /\ \/ /\ appLog' = appLog
          /\ engine_result' = [engine_result EXCEPT ![research_id] = None]
          /\ pc' = [pc EXCEPT ![research_id] = "done"]
          /\ UNCHANGED <<store, escaped, calls>>
       \/ Handler(research_id, SummaryError)
    /\ UNCHANGED <<raised, response, apiLog, client, process, others>>

\* main.py 157-182, GET /research/{id}: the answer for a stored row.
get_research_status(db, research_id) ==
    LET task == get_by_id(db, research_id)
    IN  IF task = None THEN None ELSE Some(ResearchResponse(task[1]))

\* main.py 184-210, GET /research: the bodies it may answer with.  The
\* endpoint declares limit and offset only; a status in the query string is
\* not a declared parameter and is not looked at.
list_research(db, limit, offset, status) ==
    { [i \in DOMAIN tasks |-> ResearchResponse(tasks[i])] : tasks \in get_all(db, limit, offset) }

\* app.py 238-266: one round of the polling loop.  The request is answered
\* (the loop stops on completed or failed, or when the budget is used up) or
\* it fails (the loop stops).
poll ==
    /\ client.phase = "polling"
    /\ \/ \E research_data \in { get_research_status(store, client.research_id) } :
            /\ process = "up"
            /\ research_data # None
            /\ \E timeout \in BOOLEAN :
                 client' = [client EXCEPT
                              !.status = research_data[1].status,
                              !.phase = IF research_data[1].status \in Terminal \/ timeout
                                        THEN "stopped" ELSE "polling"]
       \/ client' = [client EXCEPT !.status = "", !.phase = "stopped"]
    /\ UNCHANGED <<store, pc, engine_result, raised, escaped, response, calls, apiLog, appLog,
                   process, others>>

Init ==
    /\ store = EmptyDict
    /\ pc = [id \in Ids |-> "none"]
    /\ engine_result = [id \in Ids |-> None]
    /\ raised = [id \in Ids |-> None]
    /\ escaped = {}
    /\ response = [id \in Ids |-> None]
    /\ calls = [id \in Ids |-> <<>>]
    /\ apiLog = <<>>
    /\ appLog = {}
    /\ client = [phase |-> "idle", research_id |-> 0, status |-> ""]
    /\ process = "up"
    /\ now = 0
    /\ last = NoCall
    /\ pager = NoPager
    /\ log_exists = TRUE
    /\ audit = NoAudit
    /\ session = NoSession
    /\ units = [id \in Ids |-> IF pc[id] = "none" THEN 0 ELSE 1]
    /\ txn = NoTxn
    /\ polling = NoPolling

Next ==
    \/ \E id \in Ids, request \in Requests : start_research(id, request)
    \/ \E id \in Ids : run_research_start(id)
    \/ \E id \in Ids, r \in EngineReturns : run_research_returned(id, r)
    \/ \E id \in Ids, e \in EngineErrors : run_research_raised(id, e)
    \/ \E id \in Ids : run_research_summary(id)
    \/ poll

Spec == Init /\ [][Next]_vars

\* ------------------------------------------------------------------ claims
Status(id) == store[id].status
InTerminal(id) == id \in DOMAIN store /\ store[id].status \in Terminal

\* C1: a stored status changes only along pending -> running,
\* running -> completed or running -> failed.
C1_StatusMovesForward ==
    [][\A id \in DOMAIN store :
          Status(id)' # Status(id) =>
              <<Status(id), Status(id)'>> \in { <<"pending", "running">>,
                                               <<"running", "completed">>,
                                               <<"running", "failed">> }]_vars

\* C2: a unit that has run to its end has made exactly one terminal store
\* call (update_result or update_error), once.
C2_ExactlyOneTerminalCall ==
    \A id \in Ids : pc[id] = "done" => Len(calls[id]) = 1

\* C3: a result implies status completed, an error implies status failed,
\* and no task has both.
C3_ResultErrorMatchStatus ==
    \A id \in DOMAIN store :
        /\ store[id].result # None => Status(id) = "completed"
        /\ store[id].error # None => Status(id) = "failed"
        /\ ~(store[id].result # None /\ store[id].error # None)

\* C4: once a task is completed or failed, no write changes its row.
C4_TerminalRowsFrozen ==
    [][\A id \in DOMAIN store :
          Status(id) \in Terminal => store'[id] = store[id]]_vars

\* The specification in which the engine hands back every mapping of
\* AllEngineDicts: one task, submitted and started, whose unit awaits it.
NormalizeInit ==
    \E task \in Ids, request \in Requests :
        /\ now = 0
        /\ store = update_status(
                     create(EmptyDict, task, request.query, request.research_type, "pending"),
                     task, "running")
        /\ pc = [id \in Ids |-> IF id = task THEN "awaiting" ELSE "none"]
        /\ response = [id \in Ids |->
                          IF id = task THEN SubmitResponse(task, request.query) ELSE None]
        /\ engine_result = [id \in Ids |-> None]
        /\ raised = [id \in Ids |-> None]
        /\ escaped = {}
        /\ calls = [id \in Ids |-> <<>>]
        /\ apiLog = <<>>
        /\ appLog = {}
        /\ client = [phase |-> "idle", research_id |-> 0, status |-> ""]
        /\ process = "up"
        /\ last = NoCall
        /\ pager = NoPager
        /\ log_exists = TRUE
        /\ audit = NoAudit
        /\ session = NoSession
        /\ units = [id \in Ids |-> IF pc[id] = "none" THEN 0 ELSE 1]
        /\ txn = NoTxn
        /\ polling = NoPolling

NormalizeNext ==
    \/ \E id \in Ids, r \in AllEngineReturns : run_research_returned(id, r)
    \/ \E id \in Ids : run_research_summary(id)

NormalizeSpec == NormalizeInit /\ [][NormalizeNext]_vars

\* The event loop runs every unit it was handed, and resumes it after each
\* suspension; nothing makes the engine resolve.
FairSpec ==
    /\ Spec
    /\ \A id \in Ids : WF_vars(run_research_start(id))
    /\ \A id \in Ids : WF_vars(run_research_summary(id))

\* C5: the submit response is pending with no result and no error; while the
\* unit of a task has not begun, the task is stored pending and every answer
\* the polling loop got for it is pending; every stored task has a status.
C5_PendingUntilUnitBegins ==
    \A id \in Ids :
        /\ response[id] # None =>
              /\ id \in DOMAIN store
              /\ response[id][1].status = "pending"
              /\ response[id][1].result = None
              /\ response[id][1].error = None
        /\ pc[id] = "scheduled" =>
              /\ get_research_status(store, id) # None
              /\ get_research_status(store, id)[1].status = "pending"
              /\ (client.research_id = id /\ client.status # "") => client.status = "pending"
        /\ id \in DOMAIN store => Status(id) \in Statuses

C5_Witness ==
    \E id \in Ids :
        pc[id] = "scheduled" /\ client.research_id = id /\ client.status = "pending"

\* C6: whenever the unit of a task is scheduled, or at any later position
\* (the pending engine call included), the row is created and the response
\* of its submission has been produced.
C6_ResponseBeforeUnit ==
    \A id \in Ids : pc[id] # "none" => id \in DOMAIN store /\ response[id] # None

C6_Witness ==
    \E id \in Ids : pc[id] = "awaiting" /\ response[id] # None /\ calls[id] = <<>>

\* C7: a unit whose engine call raised ends with the task failed, error the
\* engine's message, no result, and lets no exception out.
C7_EngineFailureCaught ==
    \A id \in Ids :
        (raised[id] # None /\ pc[id] = "done") =>
            /\ Status(id) = "failed"
            /\ store[id].error = raised[id]
            /\ store[id].result = None
            /\ id \notin escaped

\* C8: after engine success the task is stored completed with exactly the
\* fields compressed_research, raw_notes and draft_report; draft_report is
\* the engine's when non-empty, else the heading, a blank line and the
\* engine's compressed_research; the other two are the engine's values, or
\* the empty string / empty list when absent.
C8_NormalizedResult ==
    \A id \in Ids :
        pc[id] = "summary" =>
            /\ Status(id) = "completed"
            /\ store[id].result # None
            /\ LET r == engine_result[id][1]
                   stored == store[id].result[1]
                   compressed == IF "compressed_research" \in DOMAIN r
                                 THEN r["compressed_research"] ELSE ""
               IN  /\ DOMAIN stored = {"compressed_research", "raw_notes", "draft_report"}
                   /\ stored["compressed_research"] = compressed
                   /\ stored["raw_notes"] =
                        (IF "raw_notes" \in DOMAIN r THEN r["raw_notes"] ELSE <<>>)
                   /\ stored["draft_report"] =
                        (IF "draft_report" \in DOMAIN r /\ Len(r["draft_report"]) > 0
                         THEN r["draft_report"]
                         ELSE "# Research Report" \o "\n" \o "\n" \o compressed)

C8_Witness ==
    \E id \in Ids :
        /\ pc[id] = "summary"
        /\ "draft_report" \in DOMAIN engine_result[id][1]
        /\ engine_result[id][1]["draft_report"] = ""
        /\ store[id].result[1]["draft_report"] = "# Research Report\n\nfindings"

\* C9: when a unit has ended in failure, the Audit Log holds an error record
\* for that failure.
C9_FailureInAuditLog ==
    \A id \in Ids :
        (pc[id] = "done" /\ Status(id) = "failed") =>
            \E i \in DOMAIN apiLog :
                apiLog[i].direction = "ERROR" /\ Some(apiLog[i].error) = store[id].error

crash ==
    /\ process = "up"
    /\ process' = "down"
    /\ pc' = [id \in Ids |->
                IF pc[id] \in {"scheduled", "awaiting", "summary"} THEN "lost" ELSE pc[id]]
    /\ engine_result' = [id \in Ids |-> None]
    /\ UNCHANGED <<store, raised, escaped, response, calls, apiLog, appLog, client, others>>

\* main.lifespan, up to its yield: init_db, whose failure is logged and
\* swallowed; the application then serves requests.
lifespan ==
    /\ process = "down"
    /\ process' = "up"
    /\ \/ /\ store' = init_db(store)
          /\ UNCHANGED appLog
       \/ /\ appLog' = appLog \cup { AppLine("ERROR", 0, "Database initialization failed") }
          /\ UNCHANGED store
    /\ UNCHANGED <<pc, engine_result, raised, escaped, response, calls, apiLog, client, others>>

\* The lifecycle of Spec, without the polling frontend, in a process that
\* may die and be started again.
CrashNext ==
    \/ \E id \in Ids, request \in Requests : start_research(id, request)
    \/ \E id \in Ids : run_research_start(id)
    \/ \E id \in Ids, r \in EngineReturns : run_research_returned(id, r)
    \/ \E id \in Ids, e \in EngineErrors : run_research_raised(id, e)
    \/ \E id \in Ids : run_research_summary(id)
    \/ crash
    \/ lifespan

CrashSpec == Init /\ [][CrashNext]_vars

\* The unit of the task was lost to a crash between its update_status
\* ("running") commit and its terminal write.
Stuck(id) == id \in DOMAIN store /\ pc[id] = "lost" /\ store[id].status = "running"

\* C11: a task whose unit was lost to a crash while the task was running
\* stays running: no step (restart with init_db, later submissions, the
\* steps of other units) changes its row.
C11_StuckRunningForever ==
    [][\A id \in Ids : Stuck(id) => Stuck(id)' /\ store'[id] = store[id]]_vars

\* A stuck task, after the restart, beside the running unit of a task
\* submitted since (a crash leaves no unit awaiting).
C11_Witness ==
    /\ process = "up"
    /\ \E id \in Ids, later \in Ids :
          /\ Stuck(id)
          /\ later # id /\ pc[later] = "awaiting" /\ store[later].status = "running"

\* ------------------------------------------------ the repository, called
\* ResearchRepository is a class of static methods: any caller holding a
\* session may call any of them with any arguments.  Each action is one
\* call; last records the call and what it gave back.
StoreFrame ==
    UNCHANGED <<pc, engine_result, raised, escaped, response, calls, apiLog, appLog, client,
                process, now, pager, log_exists, audit, session, units, txn, polling>>

repo_create(research_id, request) ==
    /\ store' = create(store, research_id, request.query, request.research_type, "pending")
    /\ last' = [NoCall EXCEPT
                   !.op = "create", !.research_id = research_id,
                   !.query = request.query, !.research_type = request.research_type,
                   !.raised = IF research_id \in DOMAIN store THEN IntegrityError ELSE "",
                   !.task = IF research_id \in DOMAIN store
                            THEN None ELSE get_by_id(store', research_id)]
    /\ StoreFrame

repo_get_by_id(research_id) ==
    /\ last' = [NoCall EXCEPT !.op = "get_by_id", !.research_id = research_id,
                              !.task = get_by_id(store, research_id)]
    /\ UNCHANGED store
    /\ StoreFrame

repo_update_status(research_id, status) ==
    /\ store' = update_status(store, research_id, status)
    /\ last' = [NoCall EXCEPT !.op = "update_status", !.research_id = research_id,
                              !.status = status,
                              !.task = get_by_id(store', research_id)]
    /\ StoreFrame

repo_update_result(research_id, r) ==
    /\ store' = update_result(store, research_id, r)
    /\ last' = [NoCall EXCEPT !.op = "update_result", !.research_id = research_id,
                              !.task = get_by_id(store', research_id)]
    /\ StoreFrame

repo_update_error(research_id, e) ==
    /\ store' = update_error(store, research_id, e)
    /\ last' = [NoCall EXCEPT !.op = "update_error", !.research_id = research_id,
                              !.task = get_by_id(store', research_id)]
    /\ StoreFrame

repo_delete(research_id) ==
    /\ store' = delete(store, research_id)
    /\ last' = [NoCall EXCEPT !.op = "delete", !.research_id = research_id,
                              !.deleted = (research_id \in DOMAIN store)]
    /\ StoreFrame

\* The results and errors the direct calls store.
StoredResults == { result_data(EmptyDict) }

StoreNext ==
    \/ \E id \in Ids, request \in Requests : repo_create(id, request)
    \/ \E id \in Ids : repo_get_by_id(id)
    \/ \E id \in Ids, status \in Statuses : repo_update_status(id, status)
    \/ \E id \in Ids, r \in StoredResults : repo_update_result(id, r)
    \/ \E id \in Ids, e \in EngineErrors : repo_update_error(id, e)
    \/ \E id \in Ids : repo_delete(id)

StoreSpec == Init /\ [][StoreNext]_vars

\* The row a create with these arguments leaves.
Created(research_id, query, research_type) ==
    [research_id |-> research_id, query |-> query, research_type |-> research_type,
     status |-> "pending", result |-> None, error |-> None,
     created_at |-> now, updated_at |-> now]

\* C12: right after a create that went through, get_by_id of its research_id
\* gives the task with the query and research_type of the call, status
\* pending, no result and no error; so do the row create returned and the
\* answer of GET /research/{id}.
C12_CreateGetRoundTrip ==
    (last.op = "create" /\ last.raised = "") =>
        /\ get_by_id(store, last.research_id)
              = Some(Created(last.research_id, last.query, last.research_type))
        /\ last.task = get_by_id(store, last.research_id)
        /\ get_research_status(store, last.research_id)
              = Some([research_id |-> last.research_id, status |-> "pending",
                      query |-> last.query, result |-> None, error |-> None])

\* A create that went through, into a table holding a task that has moved on.
C12_Witness ==
    /\ last.op = "create" /\ last.raised = ""
    /\ \E other \in DOMAIN store :
          other # last.research_id /\ store[other].status = "completed"

\* C13: every row is filed under its own research_id, and a create with a
\* research_id already in the table raises IntegrityError and leaves the
\* table, the row of that research_id included, as it was.
C13_DuplicateCreateRejected ==
    /\ [](\A id \in DOMAIN store : store[id].research_id = id)
    /\ [][(last'.op = "create" /\ last'.research_id \in DOMAIN store) =>
              /\ last'.raised = IntegrityError
              /\ last'.task = None
              /\ store' = store]_vars

\* A rejected create whose research_id belongs to a task that has moved on
\* and was submitted with the other request.
C13_Witness ==
    /\ last.op = "create" /\ last.raised = IntegrityError
    /\ last.research_id \in DOMAIN store
    /\ store[last.research_id].status = "failed"
    /\ store[last.research_id].query # last.query
    /\ Cardinality(DOMAIN store) > 1

\* C14: update_status(research_id, "running") on a task that is running,
\* completed or failed leaves the table as it was.
C14_SetRunningOnlyFromPending ==
    [][(/\ last'.op = "update_status" /\ last'.status = "running"
        /\ last'.research_id \in DOMAIN store
        /\ store[last'.research_id].status # "pending")
          => store' = store]_vars

\* C15: update_result and update_error on a pending task raise and leave the
\* table as it was.
C15_TerminalWriteNeedsRunning ==
    [][(/\ last'.op \in {"update_result", "update_error"}
        /\ last'.research_id \in DOMAIN store
        /\ store[last'.research_id].status = "pending")
          => /\ store' = store
             /\ last'.raised # ""]_vars

\* C16: get_by_id, update_status, update_result, update_error and delete of
\* a research_id that is not in the table change no row and give back
\* None (False for delete); GET /research/{id} has no body to answer (404).
C16_AbsentIdChangesNothing ==
    [][(/\ last'.op \in {"get_by_id", "update_status", "update_result",
                         "update_error", "delete"}
        /\ last'.research_id \notin DOMAIN store)
          => /\ store' = store
             /\ last'.task = None
             /\ last'.deleted = FALSE
             /\ last'.raised = ""
             /\ get_research_status(store', last'.research_id) = None]_vars

\* An update of a research_id that is not in a table that has other rows.
C16_Witness ==
    /\ last.op \in {"update_status", "update_result", "update_error"}
    /\ last.research_id \notin DOMAIN store
    /\ last.task = None
    /\ store # EmptyDict

\* C19: delete returns True exactly when the research_id was in the table;
\* the row of that research_id is gone afterwards and every other row is as
\* it was (so an absent research_id changes nothing).
C19_DeleteExactlyOne ==
    [][last'.op = "delete" =>
          /\ last'.deleted = (last'.research_id \in DOMAIN store)
          /\ last'.research_id \notin DOMAIN store'
          /\ \A other \in Ids \ {last'.research_id} :
                get_by_id(store', other) = get_by_id(store, other)]_vars

\* A delete that returned True and left a running task in the table.
C19_Witness ==
    /\ last.op = "delete" /\ last.deleted
    /\ \E other \in DOMAIN store : store[other].status = "running"

\* C20: no step changes the research_id, query or research_type of a row it
\* leaves in the table: not update_status, update_result or update_error,
\* which are the only writes of run_research.
C20_IdentityFieldsFrozen ==
    [][\A id \in DOMAIN store \cap DOMAIN store' :
          /\ store'[id].research_id = store[id].research_id
          /\ store'[id].query = store[id].query
          /\ store'[id].research_type = store[id].research_type]_vars

\* A task that went through all three updates.
C20_Witness ==
    /\ last.op \in {"update_status", "update_result", "update_error"}
    /\ last.research_id \in DOMAIN store
    /\ store[last.research_id].result # None
    /\ store[last.research_id].error # None
    /\ store[last.research_id].status = "running"

\* -------------------------------------------------------------- listing
\* Tasks are submitted and started while the clock runs; a reader walks
\* GET /research page by page, from offset 0, adding limit to the offset
\* until a page comes back short.  A write to the table ends the walk.
ListFrame ==
    UNCHANGED <<pc, engine_result, raised, escaped, response, calls, apiLog, appLog, client,
                process, last, log_exists, audit, session, units, txn, polling>>

\* The request body the listed tasks are submitted with.
ListRequest == [query |-> "q1", research_type |-> "supervisor"]

tick ==
    /\ now < MaxTime
    /\ now' = now + 1
    /\ UNCHANGED <<store, pager>>
    /\ ListFrame

\* What start_research does to the table.
list_submit(research_id) ==
    /\ research_id \notin DOMAIN store
    /\ store' = create(store, research_id, ListRequest.query, ListRequest.research_type,
                       "pending")
    /\ pager' = NoPager
    /\ UNCHANGED now
    /\ ListFrame

\* What the first commit of run_research does to the table.
list_start(research_id) ==
    /\ research_id \in DOMAIN store
    /\ store[research_id].status = "pending"
    /\ store' = update_status(store, research_id, "running")
    /\ pager' = NoPager
    /\ UNCHANGED now
    /\ ListFrame

\* A reader starts a walk, with a page size and possibly a status filter.
list_begin(limit, status) ==
    /\ pager = NoPager
    /\ pager' = [NoPager EXCEPT !.limit = limit, !.status = status]
    /\ UNCHANGED <<store, now>>
    /\ ListFrame

\* One GET /research?limit=..&offset=..[&status=..] of the walk.
list_research_page ==
    /\ pager.limit > 0
    /\ ~pager.done
    /\ \E body \in list_research(store, pager.limit, pager.offset, pager.status) :
          pager' = [pager EXCEPT
                      !.seen = pager.seen \o [i \in DOMAIN body |-> body[i].research_id],
                      !.offset = pager.offset + pager.limit,
                      !.done = Len(body) < pager.limit]
    /\ UNCHANGED <<store, now>>
    /\ ListFrame

ListNext ==
    \/ tick
    \/ \E id \in Ids : list_submit(id)
    \/ \E id \in Ids : list_start(id)
    \/ \E limit \in Limits, status \in {None} \cup { Some(f) : f \in Statuses } :
          list_begin(limit, status)
    \/ list_research_page

ListSpec == Init /\ [][ListNext]_vars

\* created_at does not increase along the page.
Descending(page) ==
    \A i, j \in DOMAIN page : i < j => page[i].created_at >= page[j].created_at

\* C17: a page of get_all has at most limit rows, newest first; the pages of
\* a finished walk of an unchanging table hold every task exactly once,
\* whether or not tasks share a created_at.
C17_PagesPartitionTheTasks ==
    /\ \A limit \in Limits, offset \in 0..MaxTasks :
          \A page \in get_all(store, limit, offset) :
              Len(page) <= limit /\ Descending(page)
    /\ (pager.done /\ pager.status = None) =>
          /\ Len(pager.seen) = Cardinality(DOMAIN store)
          /\ \A id \in DOMAIN store : \E i \in DOMAIN pager.seen : pager.seen[i] = id

\* C18: get_all_by_status returns, newest first and within limit and offset,
\* exactly the tasks with the status asked for, and so does GET /research
\* asked with a status.
C18_StatusFilterExact ==
    /\ \A f \in Statuses, limit \in Limits, offset \in 0..MaxTasks :
          \A page \in get_all_by_status(store, f, limit, offset) :
              /\ Len(page) <= limit /\ Descending(page)
              /\ \A i \in DOMAIN page : page[i].status = f
              /\ (limit = DefaultLimit /\ offset = 0) =>
                    { page[i].research_id : i \in DOMAIN page }
                      = { id \in DOMAIN store : store[id].status = f }
    /\ pager.status # None =>
          \A i \in DOMAIN pager.seen : store[pager.seen[i]].status = pager.status[1]

\* C30: a unit one of whose store writes (update_status, update_result)
\* raised ends with the task failed and lets no exception out.
C30_StoreFailureCaught ==
    \A id \in Ids :
        (pc[id] = "done" /\ store[id].error = Some(StoreError)) =>
            /\ Status(id) = "failed"
            /\ id \notin escaped

\* ------------------------------------------------ the Audit Log, written
\* The engine of a running task calls the functions of request_logger; any
\* process may import the module, and read the file.  Each action is one
\* call; audit records it and how it ended.
AuditFrame ==
    UNCHANGED <<store, pc, engine_result, raised, escaped, response, calls, appLog, client,
                process, now, last, pager, units, txn, polling>>

\* One task, submitted and started, whose engine is running; whether the log
\* file is there is up to what ran before.
AuditInit ==
    /\ now = 0
    /\ store = update_status(create(EmptyDict, 1, "q1", "supervisor", "pending"), 1, "running")
    /\ pc = [id \in Ids |-> IF id = 1 THEN "awaiting" ELSE "none"]
    /\ response = [id \in Ids |-> IF id = 1 THEN SubmitResponse(1, "q1") ELSE None]
    /\ engine_result = [id \in Ids |-> None]
    /\ raised = [id \in Ids |-> None]
    /\ escaped = {}
    /\ calls = [id \in Ids |-> <<>>]
    /\ apiLog = <<>>
    /\ appLog = {}
    /\ client = [phase |-> "idle", research_id |-> 0, status |-> ""]
    /\ process = "up"
    /\ last = NoCall
    /\ pager = NoPager
    /\ log_exists = FALSE
    /\ audit = NoAudit
    /\ session = NoSession
    /\ units = [id \in Ids |-> IF pc[id] = "none" THEN 0 ELSE 1]
    /\ txn = NoTxn
    /\ polling = NoPolling

\* request_logger.py 16-22, run by the import of the module: the logs
\* directory is made if missing and FileHandler opens the file for append,
\* creating it when it is not there.
import_request_logger ==
    /\ log_exists' = TRUE
    /\ audit' = [NoAudit EXCEPT !.op = "import"]
    /\ UNCHANGED <<apiLog, session>>
    /\ AuditFrame

\* One call of a function of request_logger: the record goes through
\* logger.info / logger.error to the file handler.
Log(op, rec, outcome) ==
    /\ log_exists
    /\ Len(apiLog) < MaxLog
    /\ LET out == emit(apiLog, rec, outcome)
       IN  /\ apiLog' = out.records
           /\ audit' = [NoAudit EXCEPT !.op = op, !.outcome = outcome,
                                       !.returned = out.returned]
    /\ UNCHANGED <<log_exists, session>>
    /\ AuditFrame

call_log_tavily_request(query, outcome) ==
    Log("log_tavily_request", log_tavily_request(query, 3, "general"), outcome)

call_log_tavily_response(query, first_result, outcome) ==
    Log("log_tavily_response", log_tavily_response(query, 3, first_result), outcome)

call_log_openrouter_request(request_type, outcome) ==
    Log("log_openrouter_request",
        log_openrouter_request("model", <<[role |-> "system", content |-> "be brief"],
                                          [role |-> "user", content |-> "hello"]>>,
                               None, request_type),
        outcome)

call_log_openrouter_response(request_type, outcome) ==
    Log("log_openrouter_response",
        log_openrouter_response("model", "hi", request_type,
                                Some([prompt_tokens |-> 7, completion_tokens |-> 1])),
        outcome)

call_log_tavily_error(query, outcome) ==
    Log("log_tavily_error", log_tavily_error(query, "timeout"), outcome)

call_log_openrouter_error(request_type, outcome) ==
    Log("log_openrouter_error", log_openrouter_error("model", request_type, "timeout"),
        outcome)

call_log_agent_iteration(iteration, outcome) ==
    Log("log_agent_iteration", log_agent_iteration("researcher", iteration, "search"),
        outcome)

\* ---------------------------------------------------- the Audit Log, read
\* One call of a reader that reads the file once.
Read(report) ==
    /\ apiLog' = open_r(apiLog)
    /\ audit' = report
    /\ UNCHANGED <<log_exists, session>>
    /\ AuditFrame

call_detect_loop(threshold) ==
    Read([NoAudit EXCEPT !.op = "detect_loop", !.threshold = threshold,
                         !.signal = detect_loop(read_logs(log_exists, apiLog, None),
                                                threshold)])

call_get_request_type_breakdown ==
    Read([NoAudit EXCEPT !.op = "get_request_type_breakdown",
                         !.breakdown = get_request_type_breakdown(
                                           read_logs(log_exists, apiLog, None))])

call_get_api_log_summary ==
    Read([NoAudit EXCEPT !.op = "get_api_log_summary",
                         !.printed = <<get_api_log_summary(log_exists, apiLog)>>])

call_show_summary ==
    Read([NoAudit EXCEPT !.op = "show_summary",
                         !.printed = show_summary(log_exists, apiLog)])

call_show_tail(num_lines) ==
    Read([NoAudit EXCEPT !.op = "show_tail",
                         !.printed = show_tail(log_exists, apiLog, num_lines)])

call_grep_logs(pattern) ==
    Read([NoAudit EXCEPT !.op = "grep_logs",
                         !.printed = grep_logs(log_exists, apiLog, pattern)])

call_show_detailed_summary ==
    Read([NoAudit EXCEPT !.op = "show_detailed_summary",
                         !.printed = show_detailed_summary(log_exists, apiLog)])

\* logging_utils.get_session_summary reads the file three times: for its own
\* counts (204-213), in get_request_type_breakdown (215) and in detect_loop
\* (225).  Other processes run between the reads.
get_session_summary_counts ==
    /\ session.at \in {"idle", "done"}
    /\ apiLog' = open_r(apiLog)
    /\ LET lines == read_logs(log_exists, apiLog, None)
       IN  session' = IF lines = <<>>
                      THEN [NoSession EXCEPT !.at = "done", !.from = Len(apiLog),
                                             !.result = EmptyDict]
                      ELSE [NoSession EXCEPT !.at = "counted", !.from = Len(apiLog),
                                             !.counts = session_counts(lines)]
    /\ UNCHANGED <<log_exists, audit>>
    /\ AuditFrame

get_session_summary_breakdown ==
    /\ session.at = "counted"
    /\ apiLog' = open_r(apiLog)
    /\ session' = [session EXCEPT
                     !.at = "broken_down",
                     !.breakdown = get_request_type_breakdown(
                                       read_logs(log_exists, apiLog, None))]
    /\ UNCHANGED <<log_exists, audit>>
    /\ AuditFrame

get_session_summary_detect ==
    /\ session.at = "broken_down"
    /\ apiLog' = open_r(apiLog)
    /\ session' = [session EXCEPT
                     !.at = "done",
                     !.result = session_summary(
                                    session.counts, session.breakdown,
                                    detect_loop(read_logs(log_exists, apiLog, None),
                                                DefaultThreshold))]
    /\ UNCHANGED <<log_exists, audit>>
    /\ AuditFrame

\* Whether the write of the handler goes through.
WriteOutcomes == {"written", "failed"}

\* Every function of request_logger is called, its write going through or
\* not, while the file is read.
AppendNext ==
    \/ import_request_logger
    \/ \E outcome \in WriteOutcomes : call_log_tavily_request("quantum computing", outcome)
    \/ \E outcome \in WriteOutcomes :
          call_log_tavily_response("quantum computing", Some([title |-> "Qubits"]), outcome)
    \/ \E outcome \in WriteOutcomes : call_log_openrouter_request("research", outcome)
    \/ \E outcome \in WriteOutcomes : call_log_openrouter_response("research", outcome)
    \/ \E outcome \in WriteOutcomes : call_log_tavily_error("quantum computing", outcome)
    \/ \E outcome \in WriteOutcomes : call_log_openrouter_error("research", outcome)
    \/ \E outcome \in WriteOutcomes : call_log_agent_iteration(2, outcome)
    \/ call_detect_loop(DefaultThreshold)
    \/ call_show_tail(1)

AppendSpec == AuditInit /\ [][AppendNext]_vars

\* s is the beginning of t (sequences or strings).
IsPrefix(s, t) == Len(s) <= Len(t) /\ SubSeq(t, 1, Len(s)) = s

\* C21: in every step the records and the text the log held are the
\* beginning of what it holds afterwards; a step adds at most one record,
\* and a call whose write went through adds exactly its one record at the
\* end.
C21_AppendOnly ==
    [][/\ IsPrefix(apiLog, apiLog')
       /\ IsPrefix(file_text(apiLog), file_text(apiLog'))
       /\ Len(apiLog') <= Len(apiLog) + 1
       /\ audit'.outcome = "written" =>
             /\ Len(apiLog') = Len(apiLog) + 1
             /\ file_text(apiLog') = file_text(apiLog) \o format(apiLog'[Len(apiLog')])]_vars

\* Two appended records of different kinds, read afterwards.
C21_Witness ==
    /\ Len(apiLog) = 2
    /\ apiLog[1].category # apiLog[2].category
    /\ audit.op = "show_tail"
    /\ Len(audit.printed) = 2

\* C22: a call of a function of request_logger whose write fails returns
\* to its caller, and changes neither the log nor the task and its unit.
C22_WriteFailureSwallowed ==
    [][audit'.outcome = "failed" =>
          /\ audit'.returned
          /\ UNCHANGED <<apiLog, store, pc, raised, escaped, calls, engine_result>>]_vars

\* A failed write of an error record, after a record that was written.
C22_Witness ==
    /\ audit.op = "log_tavily_error" /\ audit.outcome = "failed" /\ audit.returned
    /\ Len(apiLog) = 1
    /\ store[1].status = "running"

\* ------------------------------------------------------- loop detection
\* The search queries an engine logs: plain ones, the empty one, two that
\* share their beginning up to a quote.
Queries == {"quantum computing", "machine learning", "", "what's new", "what's next"}
\* The iteration numbers it logs, and the thresholds detect_loop is given.
Iterations == {2, 5}
Thresholds == {3, DefaultThreshold}

\* Search requests, a search response about the log's own tags, and agent
\* steps are logged; detect_loop is called.
DetectNext ==
    \/ import_request_logger
    \/ \E query \in Queries : call_log_tavily_request(query, "written")
    \/ call_log_tavily_response("what is [AGENT]", None, "written")
    \/ \E iteration \in Iterations : call_log_agent_iteration(iteration, "written")
    \/ \E threshold \in Thresholds : call_detect_loop(threshold)

DetectSpec == AuditInit /\ [][DetectNext]_vars

\* The queries of the search-provider request records, in order, and the
\* agent-step records.
TavilyQueries(records) ==
    LET requests == SelectSeq(records, LAMBDA rec : rec.category = "TAVILY"
                                                   /\ rec.direction = "REQUEST")
    IN  [i \in DOMAIN requests |-> requests[i].query]
AgentSteps(records) == SelectSeq(records, LAMBDA rec : rec.category = "AGENT")

\* The most recent agent-step record has an iteration at or above the
\* threshold.
LastIterationAtLeast(records, threshold) ==
    /\ AgentSteps(records) # <<>>
    /\ AgentSteps(records)[Len(AgentSteps(records))].iteration >= threshold

\* C23: when two search-provider request records of the log carry the same
\* query, detect_loop returns True.
C23_DuplicateQuerySignals ==
    (audit.op = "detect_loop" /\ HasDuplicate(TavilyQueries(apiLog))) => audit.signal

\* C24: when the most recent agent-step record has an iteration at or above
\* the threshold, detect_loop returns True; when it is below and the log has
\* no search request, detect_loop returns False whatever the earlier
\* agent-step records say.
C24_LastIterationSignals ==
    audit.op = "detect_loop" =>
        /\ LastIterationAtLeast(apiLog, audit.threshold) => audit.signal
        /\ (/\ AgentSteps(apiLog) # <<>>
            /\ ~LastIterationAtLeast(apiLog, audit.threshold)
            /\ TavilyQueries(apiLog) = <<>>) => ~audit.signal

\* C25: when the queries of the search-provider requests are pairwise
\* distinct and the most recent agent-step iteration is below the threshold
\* (or there is no agent step), detect_loop returns False.
C25_NoLoopNoSignal ==
    (/\ audit.op = "detect_loop"
     /\ ~HasDuplicate(TavilyQueries(apiLog))
     /\ ~LastIterationAtLeast(apiLog, audit.threshold)) => ~audit.signal

\* ---------------------------------------------------------- diagnostics
\* Records are appended, some with a field that holds the word ERROR, while
\* every reader of the file is run.
DiagnosticNext ==
    \/ import_request_logger
    \/ \E query \in {"quantum computing", "ERROR codes"} :
          call_log_tavily_request(query, "written")
    \/ call_log_openrouter_request("research", "written")
    \/ call_log_openrouter_error("research", "written")
    \/ call_detect_loop(DefaultThreshold)
    \/ call_get_request_type_breakdown
    \/ call_get_api_log_summary
    \/ call_show_summary
    \/ call_show_tail(1)
    \/ call_grep_logs("error")
    \/ call_show_detailed_summary
    \/ get_session_summary_counts
    \/ get_session_summary_breakdown
    \/ get_session_summary_detect

DiagnosticSpec == AuditInit /\ [][DiagnosticNext]_vars

\* The number of records of a kind.
Records(records, category, direction) ==
    Cardinality({ i \in DOMAIN records :
                    records[i].category = category /\ records[i].direction = direction })
ErrorRecords(records) ==
    Cardinality({ i \in DOMAIN records : records[i].direction = "ERROR" })

\* C26: the counts of a summary of an unchanging log are the numbers of
\* records of each kind that were appended: in the dict of
\* get_session_summary, in the text of get_api_log_summary and in what
\* show_summary prints.
C26_SummaryCountsExact ==
    /\ (session.at = "done" /\ session.result # EmptyDict
            /\ session.from = Len(apiLog)) =>
          /\ session.result.tavily_requests = Records(apiLog, "TAVILY", "REQUEST")
          /\ session.result.tavily_responses = Records(apiLog, "TAVILY", "RESPONSE")
          /\ session.result.openrouter_requests = Records(apiLog, "OPENROUTER", "REQUEST")
          /\ session.result.openrouter_responses = Records(apiLog, "OPENROUTER", "RESPONSE")
          /\ session.result.errors = ErrorRecords(apiLog)
    /\ (audit.op = "get_api_log_summary" /\ log_exists) =>
          /\ Contains(audit.printed[1], "Tavily Requests:      "
                          \o ToString(Records(apiLog, "TAVILY", "REQUEST")) \o "\n")
          /\ Contains(audit.printed[1], "Errors:               "
                          \o ToString(ErrorRecords(apiLog)) \o "\n")
    /\ (audit.op = "show_summary" /\ apiLog # <<>>) =>
          /\ audit.printed[1] = "Tavily Requests:      "
                                    \o ToString(Records(apiLog, "TAVILY", "REQUEST"))
          /\ audit.printed[3] = "Tavily Errors:        "
                                    \o ToString(Records(apiLog, "TAVILY", "ERROR"))

\* The readers of the log.
ReaderOps ==
    {"detect_loop", "get_request_type_breakdown", "get_api_log_summary", "show_summary",
     "show_tail", "grep_logs", "show_detailed_summary"}

\* C27: a step of detect_loop, get_request_type_breakdown,
\* get_api_log_summary, a diagnostic command or get_session_summary leaves
\* the log file and every row of the table as they were.
C27_ReadersChangeNothing ==
    [][(audit'.op \in ReaderOps \/ session' # session) =>
          UNCHANGED <<apiLog, log_exists, store>>]_vars

\* A log of two records, read by get_session_summary and by grep, beside a
\* running task.
C27_Witness ==
    /\ Len(apiLog) = 2
    /\ audit.op = "grep_logs"
    /\ session.at = "done" /\ session.result # EmptyDict
    /\ store[1].status = "running"

\* What get_session_summary returns on a file holding these records.
SummaryOf(records) ==
    LET lines == readlines(file_text(records))
    IN  session_summary(session_counts(lines), get_request_type_breakdown(lines),
                        detect_loop(lines, DefaultThreshold))

\* C28: the dict get_session_summary returned describes, in all its fields,
\* one beginning of the log.
C28_SummaryOfOneSnapshot ==
    (session.at = "done" /\ session.result # EmptyDict) =>
        \E k \in 1..Len(apiLog) : session.result = SummaryOf(SubSeq(apiLog, 1, k))

\* C29: while the log file is missing, the diagnostic commands and
\* get_api_log_summary report that there is no log file, detect_loop
\* returns False, get_request_type_breakdown and get_session_summary return
\* empty dicts, every call returns, and no reader creates the file.
C29_MissingFileNotFatal ==
    /\ [](~log_exists =>
            /\ audit.returned
            /\ audit.op \in {"get_api_log_summary", "show_summary", "show_tail",
                              "grep_logs", "show_detailed_summary"}
                  => audit.printed = <<"No API log file found yet">>
            /\ audit.op = "detect_loop" => ~audit.signal
            /\ audit.op = "get_request_type_breakdown" => audit.breakdown = EmptyDict
            /\ session.at \in {"idle", "done"}
            /\ session.at = "done" => session.result = EmptyDict)
    /\ [][(~log_exists /\ (audit'.op \in ReaderOps \/ session' # session)) =>
              (~log_exists' /\ apiLog' = apiLog)]_vars

\* get_session_summary and grep have run on the missing file.
C29_Witness ==
    /\ ~log_exists
    /\ audit.op = "grep_logs"
    /\ session.at = "done"

\* ------------------------------------------------ updated_at, created_at
\* Tasks are created and mutated through the repository while the clock
\* advances.
StampNext ==
    \/ tick
    \/ \E id \in Ids : repo_create(id, ListRequest)
    \/ \E id \in Ids : repo_get_by_id(id)
    \/ \E id \in Ids : repo_update_status(id, "running")
    \/ \E id \in Ids, r \in StoredResults : repo_update_result(id, r)
    \/ \E id \in Ids : repo_update_error(id, StoreError)

StampSpec == Init /\ [][StampNext]_vars

\* The step is a call of update_status, update_result or update_error on id.
Mutation(id) ==
    /\ last'.op \in {"update_status", "update_result", "update_error"}
    /\ last'.research_id = id
    /\ last' # last \/ store' # store

\* C33: a mutation of a stored task sets its updated_at to the time of the
\* call and no other step touches it; updated_at never decreases and is
\* never earlier than created_at; created_at never changes.
C33_UpdatedAtRefreshed ==
    /\ [](\A id \in DOMAIN store : store[id].updated_at >= store[id].created_at)
    /\ [][\A id \in DOMAIN store :
              /\ id \in DOMAIN store'
              /\ store'[id].created_at = store[id].created_at
              /\ store'[id].updated_at >= store[id].updated_at
              /\ Mutation(id) => store'[id].updated_at = now
              /\ ~Mutation(id) => store'[id].updated_at = store[id].updated_at]_vars

\* A task created at one time and set running at a later one.
C33_Witness ==
    \E id \in DOMAIN store :
        /\ last.op = "update_status" /\ last.research_id = id
        /\ store[id].status = "running"
        /\ store[id].created_at < store[id].updated_at
        /\ store[id].updated_at = now

\* --------------------------------------- mutations of one row, side by side
\* Two callers, each with its own database session (SessionLocal), call
\* update_status(.., "running"), update_result or update_error on the same
\* research_id.  A call is two steps of the database: the SELECT of
\* .first(), after which the attributes are assigned on the loaded object,
\* and the UPDATE of db.commit().  Nothing in the repository locks the row
\* between them.
Callers == {"A", "B"}
Other(caller) == IF caller = "A" THEN "B" ELSE "A"
Mutators == {"update_status", "update_result", "update_error"}

\* The loaded object after the assignments of the method.
Assigned(op, task) ==
    LET db == (task.research_id :> task)
    IN  CASE op = "update_status" -> update_status(db, task.research_id, "running")[task.research_id]
          [] op = "update_result" ->
                update_result(db, task.research_id, result_data(EmptyDict))[task.research_id]
          [] op = "update_error" -> update_error(db, task.research_id, StoreError)[task.research_id]

\* db.commit(): the flush emits UPDATE research_tasks SET <the columns whose
\* value differs from the one loaded> WHERE id = <primary key>.
flush(db, research_id, loaded, dirty) ==
    [db EXCEPT ![research_id] =
        [col \in DOMAIN @ |-> IF dirty[col] # loaded[col] THEN dirty[col] ELSE @[col]]]

\* The method is entered: the row is queried and the attributes assigned.
txn_query(caller, op, research_id) ==
    /\ txn[caller].at = "idle"
    /\ research_id \in DOMAIN store
    /\ IF txn[Other(caller)].at = "idle" /\ txn.before = None
       THEN txn' = [txn EXCEPT
                      ![caller] = [at |-> "loaded", op |-> op,
                                   loaded |-> Some(store[research_id]),
                                   dirty |-> Some(Assigned(op, store[research_id]))],
                      !.research_id = research_id,
                      !.before = Some(store[research_id])]
       ELSE /\ research_id = txn.research_id
            /\ txn' = [txn EXCEPT
                          ![caller] = [at |-> "loaded", op |-> op,
                                       loaded |-> Some(store[research_id]),
                                       dirty |-> Some(Assigned(op, store[research_id]))]]
    /\ UNCHANGED <<store, pc, engine_result, raised, escaped, response, calls, apiLog, appLog,
                   client, process, now, last, pager, log_exists, audit, session, units,
                   polling>>

\* db.commit() and db.refresh(task); the method returns.
txn_commit(caller) ==
    /\ txn[caller].at = "loaded"
    /\ store' = flush(store, txn.research_id, txn[caller].loaded[1], txn[caller].dirty[1])
    /\ txn' = [txn EXCEPT ![caller].at = "done"]
    /\ UNCHANGED <<pc, engine_result, raised, escaped, response, calls, apiLog, appLog,
                   client, process, now, last, pager, log_exists, audit, session, units,
                   polling>>

\* Both callers are out of their methods; others may call.
txn_over ==
    /\ \A caller \in Callers : txn[caller].at # "loaded"
    /\ txn # NoTxn
    /\ txn' = NoTxn
    /\ UNCHANGED <<store, pc, engine_result, raised, escaped, response, calls, apiLog, appLog,
                   client, process, now, last, pager, log_exists, audit, session, units,
                   polling>>

TxnNext ==
    \/ \E id \in Ids : list_submit(id)
    \/ \E caller \in Callers, op \in Mutators, id \in Ids : txn_query(caller, op, id)
    \/ \E caller \in Callers : txn_commit(caller)
    \/ txn_over

TxnSpec == Init /\ [][TxnNext]_vars

\* A row without its updated_at.
Columns(task) == [task EXCEPT !.updated_at = 0]

\* The row two calls leave when the second starts after the first returned.
OneAfterTheOther(first, second, task) == Assigned(second, Assigned(first, task))

\* Both calls of a pair have returned.
BothDone == txn.A.at = "done" /\ txn.B.at = "done"

\* The row is the one the two calls leave when made one after the other, in
\* one of the two orders.
Serializable ==
    LET task == store[txn.research_id]
    IN  \/ Columns(task) = Columns(OneAfterTheOther(txn.A.op, txn.B.op, txn.before[1]))
        \/ Columns(task) = Columns(OneAfterTheOther(txn.B.op, txn.A.op, txn.before[1]))

\* C31: after two overlapping mutations of one task the row is, in every
\* column but the time stamp, the row left by the two calls made one after
\* the other in one of the two orders, and it does not carry both a result
\* and an error.
C31_MutationsSerializable ==
    BothDone =>
        /\ Serializable
        /\ ~(store[txn.research_id].result # None /\ store[txn.research_id].error # None)

\* ------------------------------------------------------ one unit per task
\* C32: every id start_research created has exactly one unit handed to
\* BackgroundTasks and no other id has any; a unit exists only for a stored
\* row, starts once and never starts again; a step that writes a row is a
\* step of that row's own unit and of no other.
C32_OneUnitPerTask ==
    /\ [](\A id \in Ids :
            /\ units[id] = IF id \in DOMAIN store THEN 1 ELSE 0
            /\ pc[id] # "none" => id \in DOMAIN store)
    /\ [][\A id \in Ids :
              /\ pc[id] = "done" => pc'[id] = "done"
              /\ pc'[id] = "scheduled" /\ pc[id] # "scheduled" =>
                    /\ pc[id] = "none"
                    /\ id \notin DOMAIN store
              /\ (id \in DOMAIN store /\ store'[id] # store[id]) =>
                    /\ pc[id] \in {"scheduled", "awaiting", "summary"}
                    /\ pc'[id] # pc[id]
                    /\ \A other \in Ids \ {id} :
                          /\ pc'[other] = pc[other]
                          /\ other \in DOMAIN store => store'[other] = store[other]]_vars

\* Two units under way at once: the second task was submitted and started
\* while the first awaited its engine, and finished first.
C32_Witness ==
    /\ units = [id \in Ids |-> IF id \in {1, 2} THEN 1 ELSE 0]
    /\ pc[1] = "awaiting" /\ store[1].status = "running"
    /\ pc[2] = "done" /\ store[2].status = "completed"

\* -------------------------------------------------- nothing is deleted
\* C34: no step of a submission, of an execution unit or of a reader takes
\* a row out of the table: every stored research_id is still stored after
\* the step and GET /research/{id} still answers for it.
C34_NeverDeleted ==
    [][\A id \in DOMAIN store :
          /\ id \in DOMAIN store'
          /\ get_research_status(store', id) # None]_vars

\* Two tasks whose units are over, one failed and one completed, the
\* frontend having polled the second to its end: both rows are there.
C34_Witness ==
    /\ DOMAIN store = {1, 2}
    /\ pc[1] = "done" /\ store[1].status = "failed"
    /\ pc[2] = "done" /\ store[2].status = "completed"
    /\ client.phase = "stopped" /\ client.research_id = 2 /\ client.status = "completed"

\* ------------------------------------------------- request-type breakdown
\* The request_type tags the engine's callers pass: names, and the empty
\* string.
Tags == {"research", "summarization", ""}

\* Model requests are appended under these tags, beside a search request,
\* while the breakdown is read by its three readers.
BreakdownNext ==
    \/ import_request_logger
    \/ \E request_type \in Tags : call_log_openrouter_request(request_type, "written")
    \/ call_log_tavily_request("quantum computing", "written")
    \/ call_get_request_type_breakdown
    \/ call_show_detailed_summary
    \/ get_session_summary_counts
    \/ get_session_summary_breakdown
    \/ get_session_summary_detect

BreakdownSpec == AuditInit /\ [][BreakdownNext]_vars

\* The frequency table of the tags of the model requests appended.
TagTable(records) ==
    LET requests == { i \in DOMAIN records :
                        records[i].category = "OPENROUTER" /\ records[i].direction = "REQUEST" }
    IN  [tag \in { records[i].request_type : i \in requests } |->
            Cardinality({ i \in requests : records[i].request_type = tag })]

RECURSIVE Sum(_)
\* The sum of the counts of a table.
Sum(table) ==
    IF DOMAIN table = {} THEN 0
    ELSE LET key == CHOOSE k \in DOMAIN table : TRUE
         IN  table[key] + Sum([k \in DOMAIN table \ {key} |-> table[k]])

\* C35: on an unchanging log, the breakdown get_request_type_breakdown
\* returns, the one get_session_summary returns and the one
\* show_detailed_summary prints are the frequency table of the tags of the
\* model requests appended, and the counts of the summary's breakdown add up
\* to its number of model requests.
C35_BreakdownIsFrequencyTable ==
    /\ (audit.op = "get_request_type_breakdown" /\ log_exists) =>
          audit.breakdown = TagTable(apiLog)
    /\ (audit.op = "show_detailed_summary" /\ apiLog # <<>>) =>
          \A tag \in DOMAIN TagTable(apiLog) :
              \E i \in DOMAIN audit.printed :
                  audit.printed[i] = "  - " \o tag \o ": " \o ToString(TagTable(apiLog)[tag])
    /\ (session.at = "done" /\ session.result # EmptyDict
            /\ session.from = Len(apiLog)) =>
          /\ session.result.request_type_breakdown = TagTable(apiLog)
          /\ Sum(session.result.request_type_breakdown) = session.result.openrouter_requests

\* ------------------------------------------------- the polling loop, timed
\* app.py 78, 124, 236: seconds slept between two polls, the timeout of one
\* GET, the polling budget.
POLL_INTERVAL == 2
RequestTimeout == 5
max_wait_time == 300

\* The seconds a GET /research/{id} takes.
RequestTimes == {0, RequestTimeout}

\* The task the frontend session submits and polls.
PolledTask == 1

\* The loop never giving up.
timed_out_never(elapsed) == FALSE

\* app.py 260: time.time() - start_time > max_wait_time.
timed_out(elapsed) == elapsed > max_wait_time

\* app.py 112-130, the frontend's get_research_status: the body of the
\* answer, or None when the request failed (no connection, time-out, an
\* error status).
Answers(research_id) ==
    {None} \cup (IF process = "up" THEN {get_research_status(store, research_id)} ELSE {})

PollFrame ==
    UNCHANGED <<store, pc, engine_result, raised, escaped, response, calls, apiLog, appLog,
                client, process, now, last, pager, log_exists, audit, session, units, txn>>

\* app.py 212-236: submit_research returned the id; start_time is taken.
poll_begin ==
    /\ polling.at = "idle"
    /\ response[PolledTask] # None
    /\ polling' = [NoPolling EXCEPT !.at = "polling",
                                    !.research_id = response[PolledTask][1].research_id]
    /\ PollFrame

\* app.py 238-266, 269: one round of the loop.  The status is read; the loop
\* ends on a failed read, on completed or failed, or when the budget is
\* used up, and results are shown if the last read said completed;
\* otherwise the session sleeps POLL_INTERVAL.
poll_round ==
    /\ polling.at = "polling"
    /\ \E took \in RequestTimes, research_data \in Answers(polling.research_id) :
          LET read_at == polling.elapsed + took
              break == \/ research_data = None
                       \/ research_data[1].status \in {"completed", "failed"}
                       \/ timed_out(read_at)
          IN  polling' = [polling EXCEPT
                            !.research_data = research_data,
                            !.read_at = read_at,
                            !.elapsed = IF break THEN read_at ELSE read_at + POLL_INTERVAL,
                            !.at = IF break THEN "stopped" ELSE "polling",
                            !.shown = /\ break
                                      /\ research_data # None
                                      /\ research_data[1].status = "completed"]
    /\ PollFrame

\* One task, submitted by the frontend session and run by its unit, while
\* the session polls it.
PollNext ==
    \/ start_research(PolledTask, ListRequest)
    \/ run_research_start(PolledTask)
    \/ \E r \in EngineReturns : run_research_returned(PolledTask, r)
    \/ \E e \in EngineErrors : run_research_raised(PolledTask, e)
    \/ run_research_summary(PolledTask)
    \/ poll_begin
    \/ poll_round

PollSpec == Init /\ [][PollNext]_vars

\* The frontend script keeps running: a loop that can make a round makes
\* it.  Nothing makes the unit or its engine move.
PollFairSpec == PollSpec /\ WF_vars(poll_round)

\* C36: a polling loop that started stops; a round reads the status once,
\* as it is stored, and writes nothing; the loop stops at a round exactly
\* when the read failed, or read completed or failed, or more than
\* max_wait_time seconds had gone by after the read; results are shown only
\* when the last read said completed.
C36_PollingTerminates ==
    /\ (polling.at = "polling") ~> (polling.at = "stopped")
    /\ [][polling' # polling => store' = store]_vars
    /\ [][(polling.at = "polling" /\ polling' # polling) =>
              /\ polling'.research_data \in
                    {None, get_research_status(store, polling.research_id)}
              /\ polling'.at = "stopped" <=>
                    \/ polling'.research_data = None
                    \/ polling'.research_data[1].status \in {"completed", "failed"}
                    \/ polling'.read_at > max_wait_time]_vars
    /\ [](polling.shown =>
            /\ polling.at = "stopped"
            /\ polling.research_data # None
            /\ polling.research_data[1].status = "completed")
    /\ [](polling.at = "stopped" => [](polling.at = "stopped"))

\* The loop gave up on a task still running, its last read made after the
\* budget was used up, and shows no results.
C36_Witness ==
    /\ polling.at = "stopped"
    /\ polling.research_data # None
    /\ polling.research_data[1].status = "running"
    /\ polling.read_at > max_wait_time
    /\ ~polling.shown

====
